---- MODULE Spec2Model ----
(***************************************************************************)
(* Model of src/main.rs: a JSON document is translated into every language *)
(* the translation service reports.  main lists the languages, spawns one  *)
(* task per target language and joins the tasks; each task runs            *)
(* create_translation_file (read, parse, retry loop around                 *)
(* translate_json_object, serialize, write).                               *)
(*                                                                         *)
(* Specifications:                                                         *)
(*   Spec       the whole program (main and its spawned tasks);            *)
(*   SpecTree   translate_json_object applied to bounded documents;        *)
(*   SpecFixed  the whole program with a fixed behaviour of the service    *)
(*              and of the file system: only the scheduling is free;       *)
(*   SpecJob    the spawned tasks alone, scheduled fairly.                 *)
(***************************************************************************)
EXTENDS Integers, Sequences, FiniteSets, TLC

VARIABLES
    mainPc,          \* where main is: "list", "spawn", "join", "returned"
    mainResult,      \* how main ended: NoResult, "ok", "err", "panic"
    mainErr,         \* the error main returned (NoErr when none)
    language_codes,  \* the list returned by list_languages (main.rs:60)
    idx,             \* position of the spawn loop in language_codes (main.rs:67)
    hidx,            \* position of the join loop in handles (main.rs:101)
    jobs,            \* the spawned tasks, in the order of `handles` (main.rs:65,97)
    files,           \* assets/translated/<code>.json, per language code
    inputValid,      \* whether the input file holds valid JSON
    prior,           \* what every destination held before the run
    reported,        \* the count logged by "Completed {} translations"
    tDoc,            \* SpecTree: the document given to translate_json_object
    tPc,             \* SpecTree: "init" or "done"
    tSvc,            \* SpecTree: the service behaviour of the call
    tOut             \* SpecTree: what the call returned

mainVars == <<mainPc, mainResult, mainErr, language_codes, idx, hidx, jobs,
              files, inputValid, prior, reported>>
treeVars == <<tDoc, tPc, tSvc, tOut>>
vars == <<mainPc, mainResult, mainErr, language_codes, idx, hidx, jobs,
          files, inputValid, prior, reported, tDoc, tPc, tSvc, tOut>>

(***************************************************************************)
(* Bounds of the model.                                                    *)
(***************************************************************************)
\* nesting depth of the documents of SpecTree
MaxDepth == 2
\* length of the longest content a destination may hold before the run
MaxPrior == 20

(***************************************************************************)
(* serde_json::Value.  Every value is a record of the same shape:          *)
(*   kind  "obj", "arr", "str", "num", "bool", "null"                      *)
(*   s     the text of a string, or the literal of a scalar                *)
(*   kids  the entries of an object (key k, value v) in the map's          *)
(*         iteration order, or the elements of an array (k = "")           *)
(***************************************************************************)
Str(s) == [kind |-> "str", s |-> s, kids |-> <<>>]
Num(s) == [kind |-> "num", s |-> s, kids |-> <<>>]
Bool(s) == [kind |-> "bool", s |-> s, kids |-> <<>>]
Null == [kind |-> "null", s |-> "null", kids |-> <<>>]
Obj(entries) == [kind |-> "obj", s |-> "", kids |-> entries]
Arr(items) == [kind |-> "arr", s |-> "", kids |-> items]
Entry(k, v) == [k |-> k, v |-> v]
\* the value a failed call does not return
NoDoc == [kind |-> "none", s |-> "", kids |-> <<>>]

\* serde_json::Map is a BTreeMap: keys are unique and iterate in key order.
KeyOrder == <<"a", "b", "c", "d">>
KeyRank(k) == CHOOSE i \in 1..Len(KeyOrder) : KeyOrder[i] = k

\* Map::new()
MapNew == <<>>

\* Map::insert(k, v): replaces the value of an existing key, else inserts the
\* entry at its place in key order.
MapInsert(m, k, v) ==
    IF \E i \in 1..Len(m) : m[i].k = k
    THEN [i \in 1..Len(m) |-> IF m[i].k = k THEN Entry(k, v) ELSE m[i]]
    ELSE LET n == Cardinality({i \in 1..Len(m) : KeyRank(m[i].k) < KeyRank(k)})
         IN  SubSeq(m, 1, n) \o <<Entry(k, v)>> \o SubSeq(m, n + 1, Len(m))

(***************************************************************************)
(* The translation service (aws_sdk_translate::Client).                    *)
(* A service behaviour is a record                                         *)
(*   mode    "dict" (translates by Dict) or "identity" (returns its input) *)
(*   failAt  the number of the translate_text call that fails (0: none)    *)
(***************************************************************************)
Dict == [fr |-> [hello |-> "bonjour", world |-> "monde"],
         de |-> [hello |-> "hallo", world |-> "welt"]]

Call(src, tgt, text) == [src |-> src, tgt |-> tgt, text |-> text]

\* translated_text of a successful translate_text(src, tgt, text)
TranslatedText(svc, src, tgt, text) ==
    IF svc.mode = "identity" THEN text ELSE Dict[tgt][text]

\* whether the n-th translate_text call of this invocation fails
CallFails(svc, n) == svc.failAt = n

(***************************************************************************)
(* translate_json_object (main.rs:157-199).  The result is a record        *)
(*   ok     TRUE for Ok(value), FALSE for Err(err)                         *)
(*   value  the returned document (NoDoc on Err)                           *)
(*   calls  the translate_text calls made so far, in order                 *)
(*   errAt  the number of the call whose error is returned (0 on Ok)       *)
(* `calls` is threaded through the recursion: it is the log of the         *)
(* service, not a value of the program.                                    *)
(***************************************************************************)
Ok(value, calls) == [ok |-> TRUE, value |-> value, calls |-> calls, errAt |-> 0]
Err(calls, n) == [ok |-> FALSE, value |-> NoDoc, calls |-> calls, errAt |-> n]

\* TranslateString without the test of the empty string (main.rs:185): the
\* empty string is sent to the service like any other
TranslateString_NoShortCircuit(svc, src, tgt, s, calls) ==
    LET sent == Append(calls, Call(src, tgt, s))
    IN  IF CallFails(svc, Len(sent))
        THEN Err(sent, Len(sent))
        ELSE Ok(Str(IF s = "" THEN "" ELSE TranslatedText(svc, src, tgt, s)), sent)

\* main.rs:184-196, the Value::String arm
TranslateString(svc, src, tgt, s, calls) ==
    IF s = ""
    THEN Ok(Str(""), calls)
    ELSE LET sent == Append(calls, Call(src, tgt, s))
         IN  IF CallFails(svc, Len(sent))
             THEN Err(sent, Len(sent))
             ELSE Ok(Str(TranslatedText(svc, src, tgt, s)), sent)

\* PassThrough emptying an array instead of returning it as it is
PassThrough_ClearArray(json_value) ==
    IF json_value.kind = "arr" THEN Arr(<<>>) ELSE json_value

\* PassThrough replacing every other value by null
PassThrough_Null(json_value) == Null

\* main.rs:197, the arm of every other value
PassThrough(json_value) == json_value

RECURSIVE translate_json_object(_, _, _, _, _)
RECURSIVE TranslateEntries(_, _, _, _, _, _, _)
RECURSIVE TranslateEntries_Continue(_, _, _, _, _, _, _)

\* TranslateEntries without the return of main.rs:179: a failed entry is left
\* out and the loop goes on with the next entry
TranslateEntries_Continue(svc, src, tgt, obj, i, new_obj, calls) ==
    IF i > Len(obj)
    THEN Ok(Obj(new_obj), calls)
    ELSE LET r == translate_json_object(svc, src, tgt, obj[i].v, calls)
         IN  TranslateEntries_Continue(svc, src, tgt, obj, i + 1,
                IF r.ok THEN MapInsert(new_obj, obj[i].k, r.value) ELSE new_obj,
                r.calls)

\* main.rs:167-182, the loop over the entries of an object from entry i on,
\* new_obj holding the entries translated so far
TranslateEntries(svc, src, tgt, obj, i, new_obj, calls) ==
    IF i > Len(obj)
    THEN Ok(Obj(new_obj), calls)
    ELSE LET r == translate_json_object(svc, src, tgt, obj[i].v, calls)
         IN  IF r.ok
             THEN TranslateEntries(svc, src, tgt, obj, i + 1,
                                   MapInsert(new_obj, obj[i].k, r.value), r.calls)
             ELSE Err(r.calls, r.errAt)

\* main.rs:164-198
translate_json_object(svc, src, tgt, json_value, calls) ==
    CASE json_value.kind = "obj" ->
            TranslateEntries(svc, src, tgt, json_value.kids, 1, MapNew, calls)
      [] json_value.kind = "str" ->
            TranslateString(svc, src, tgt, json_value.s, calls)
      [] OTHER -> Ok(PassThrough(json_value), calls)

(***************************************************************************)
(* Documents of SpecTree: the leaves, and objects over the keys "a", "b"   *)
(* nested to MaxDepth.                                                     *)
(***************************************************************************)
Leaves == {Str(""), Str("hello"), Str("world"), Num("1"), Bool("true"), Null,
           Arr(<<Entry("", Str("hello"))>>)}

RECURSIVE DocsOfDepth(_)
DocsOfDepth(d) ==
    IF d = 0
    THEN Leaves
    ELSE LET sub == DocsOfDepth(d - 1)
         IN  sub \cup {Obj(<<>>)}
                 \cup {Obj(<<Entry("a", x)>>) : x \in sub}
                 \cup {Obj(<<Entry("a", l), Entry("b", x)>>) : l \in Leaves, x \in sub}
                 \cup {Obj(<<Entry("a", x), Entry("b", l)>>) : l \in Leaves, x \in sub}

\* {"a":"hello","b":{"c":""}}
ExampleDoc == Obj(<<Entry("a", Str("hello")),
                    Entry("b", Obj(<<Entry("c", Str(""))>>))>>)

\* the parsed input document of the runs of Spec (json_value, main.rs:123):
\* {"a":"hello","b":{"c":"","d":"world"}}
InputDoc == Obj(<<Entry("a", Str("hello")),
                  Entry("b", Obj(<<Entry("c", Str("")), Entry("d", Str("world"))>>))>>)

Docs == DocsOfDepth(MaxDepth) \cup {ExampleDoc, InputDoc}

\* the number of non-empty string leaves reached through object nesting
RECURSIVE LeafCalls(_)
RECURSIVE LeafCallsFrom(_, _)
LeafCallsFrom(entries, i) ==
    IF i > Len(entries) THEN 0
    ELSE LeafCalls(entries[i].v) + LeafCallsFrom(entries, i + 1)
LeafCalls(doc) ==
    CASE doc.kind = "obj" -> LeafCallsFrom(doc.kids, 1)
      [] doc.kind = "str" -> IF doc.s = "" THEN 0 ELSE 1
      [] OTHER -> 0

source_language_code == "en"
TreeTargets == {"fr", "de"}

NoOut == [ok |-> FALSE, value |-> NoDoc, calls |-> <<>>, errAt |-> 0]
NoSvc == [mode |-> "dict", failAt |-> 0, tgt |-> ""]


(***************************************************************************)
(* serde_json::to_string_pretty: the text of a document, as its sequence   *)
(* of tokens.  A file's content is a sequence of tokens.                   *)
(***************************************************************************)
Punct(s) == [t |-> "punct", s |-> s]
StringTok(s) == [t |-> "string", s |-> s]
LitTok(s) == [t |-> "lit", s |-> s]

RECURSIVE to_string_pretty(_)
RECURSIVE SerializeKids(_, _, _)
SerializeKids(kids, i, isObj) ==
    IF i > Len(kids) THEN <<>>
    ELSE (IF i > 1 THEN <<Punct(",")>> ELSE <<>>)
         \o (IF isObj THEN <<StringTok(kids[i].k), Punct(":")>> ELSE <<>>)
         \o to_string_pretty(kids[i].v)
         \o SerializeKids(kids, i + 1, isObj)
to_string_pretty(doc) ==
    CASE doc.kind = "obj" ->
            <<Punct("{")>> \o SerializeKids(doc.kids, 1, TRUE) \o <<Punct("}")>>
      [] doc.kind = "arr" ->
            <<Punct("[")>> \o SerializeKids(doc.kids, 1, FALSE) \o <<Punct("]")>>
      [] doc.kind = "str" -> <<StringTok(doc.s)>>
      [] OTHER -> <<LitTok(doc.s)>>

(***************************************************************************)
(* The file system: the destination of each language code.                 *)
(***************************************************************************)
LangCodes == {"auto", "en", "fr", "de"}

Absent == [exists |-> FALSE, bytes |-> <<>>]
Stale(n) == [exists |-> TRUE, bytes |-> [i \in 1..n |-> LitTok("old")]]
\* what a destination may hold before the run: nothing, or an existing file
\* that is empty, short or long
PriorContents == {Absent, Stale(0), Stale(3), Stale(MaxPrior)}

\* WriteFile creating the destination and writing nothing to it
WriteFile_Nothing(old, data) == [exists |-> TRUE, bytes |-> old.bytes]

\* OpenOptions::new().write(true).create(true).open(path) followed by
\* write_all(data) (main.rs:147-152): the file is created when absent and is
\* opened without truncate or append, so data overwrites the content from
\* offset 0 and whatever lies beyond Len(data) stays.
WriteFile(old, data) ==
    [exists |-> TRUE,
     bytes |-> data \o SubSeq(old.bytes, Len(data) + 1, Len(old.bytes))]

\* the open succeeded and write_all failed: the file exists, nothing written
CreateOnly(old) == [exists |-> TRUE, bytes |-> old.bytes]

(***************************************************************************)
(* Errors.                                                                 *)
(***************************************************************************)
Error(kind, attempt, call) == [kind |-> kind, attempt |-> attempt, call |-> call]
NoErr == Error("none", 0, 0)

(***************************************************************************)
(* create_translation_file (main.rs:113-155), one record per spawned task. *)
(*   target   target_language_code                                         *)
(*   pc       "spawned"  not yet polled                                    *)
(*            "attempt"  about to call translate_json_object (main.rs:132) *)
(*            "sleep"    in tokio::time::sleep(delay) (main.rs:137)        *)
(*            "ok", "err"  returned Ok(()) or Err(err)                     *)
(*            "aborted"  dropped by the runtime before it completed        *)
(*   retries, delay   the loop's variables (main.rs:126,128)               *)
(*   trace    the attempts and sleeps of the task, in order                *)
(*   calls    the translate_text calls of the latest attempt               *)
(*   out      the text written to the destination (<<>> when none)         *)
(*   err      the error returned                                           *)
(*   errOrder the rank in time of the task's terminal error among the      *)
(*            terminal errors of the run (0 while it has none)             *)
(***************************************************************************)
max_retries == 5
InitialDelay == 1

Attempt(ok) == [e |-> IF ok THEN "ok" ELSE "fail", d |-> 0]
Sleep(d) == [e |-> "sleep", d |-> d]

NewJob(code) ==
    [target |-> code, pc |-> "spawned", retries |-> 0, delay |-> 0,
     trace |-> <<>>, calls |-> <<>>, out |-> <<>>, err |-> NoErr,
     errOrder |-> 0]

Completed(job) == job.pc \in {"ok", "err"}

\* the rank of the next terminal error among those of the tasks js
NextErrOrder(js) == Cardinality({i \in 1..Len(js) : js[i].pc = "err"}) + 1

\* ParseOk going on with a default value when the text is not valid JSON
ParseOk_Lenient(valid) == TRUE

\* main.rs:123: `serde_json::from_str(&original_content)?` returns the parse
\* error unless the text is valid JSON
ParseOk(valid) == valid

\* main.rs:119-128: read the input, parse it, initialise the loop
\* with readOk telling whether read_to_string succeeds
JobStartWith(j, readOk) ==
    /\ j \in 1..Len(jobs)
    /\ jobs[j].pc = "spawned"
    /\ jobs' = [jobs EXCEPT ![j] =
                  IF ~readOk
                  THEN [@ EXCEPT !.pc = "err", !.err = Error("read", 0, 0),
                                 !.errOrder = NextErrOrder(jobs)]
                  ELSE IF ~ParseOk(inputValid)
                  THEN [@ EXCEPT !.pc = "err", !.err = Error("parse", 0, 0),
                                 !.errOrder = NextErrOrder(jobs)]
                  ELSE [@ EXCEPT !.pc = "attempt", !.retries = 0,
                                 !.delay = InitialDelay]]
    /\ UNCHANGED <<mainPc, mainResult, mainErr, language_codes, idx, hidx,
                   files, inputValid, prior, reported>>
    /\ UNCHANGED treeVars

JobStart(j) == \E readOk \in BOOLEAN : JobStartWith(j, readOk)

\* MayRetry with twice the budget: `retries < 2 * max_retries`
MayRetry_Twice(retries) == retries < 2 * max_retries

\* MayRetry off by one: `retries <= max_retries`
MayRetry_OffByOne(retries) == retries <= max_retries

\* main.rs:136: the guard of the retrying arm
MayRetry(retries) == retries < max_retries

\* DestinationAfter opening (and so creating) the destination before the
\* translation, whatever the attempt's result
DestinationAfter_OpenFirst(old, ok, w, data) ==
    IF ~ok THEN CreateOnly(old)
    ELSE CASE w = "ok" -> WriteFile(old, data)
           [] w = "write_err" -> CreateOnly(old)
           [] OTHER -> old

\* main.rs:131-152: the destination after one pass of the loop: untouched
\* unless the attempt succeeded; then it is opened (w = "open_err": the open
\* fails) and written (w = "write_err": write_all fails)
DestinationAfter(old, ok, w, data) ==
    IF ~ok THEN old
    ELSE CASE w = "ok" -> WriteFile(old, data)
           [] w = "write_err" -> CreateOnly(old)
           [] OTHER -> old

\* AttemptInput taking the strings out of json_value instead of cloning it:
\* after a first attempt the leaves sent so far are left empty
AttemptInput_Taken(job) ==
    IF job.trace = <<>>
    THEN Obj(<<Entry("a", Str("hello")),
               Entry("b", Obj(<<Entry("c", Str("")), Entry("d", Str("world"))>>))>>)
    ELSE Obj(<<Entry("a", Str("")),
               Entry("b", Obj(<<Entry("c", Str("")), Entry("d", Str("world"))>>))>>)

\* main.rs:132: `json_value.clone()`, the document an attempt works on
AttemptInput(job) == InputDoc

\* main.rs:131-154: one pass of the loop, from the call of
\* translate_json_object on a clone of json_value to the sleep, the return of
\* the error, or the write of the destination; failAt is the service call of
\* the attempt that fails (0: none), w the outcome of the open and write
JobAttemptWith(j, failAt, w) ==
    /\ j \in 1..Len(jobs)
    /\ jobs[j].pc = "attempt"
    /\    LET job == jobs[j]
              svc == [mode |-> "dict", failAt |-> failAt]
              r == translate_json_object(svc, source_language_code, job.target,
                                         AttemptInput(job), <<>>)
              translated_json == to_string_pretty(r.value)
              attempts == Cardinality({i \in 1..Len(job.trace) :
                                          job.trace[i].e # "sleep"}) + 1
          IN  IF r.ok
              THEN /\ jobs' = [jobs EXCEPT ![j] =
                        [@ EXCEPT !.trace = Append(@, Attempt(TRUE)),
                                  !.calls = r.calls,
                                  !.pc = IF w = "ok" THEN "ok" ELSE "err",
                                  !.out = IF w = "ok" THEN translated_json ELSE <<>>,
                                  !.err = IF w = "ok" THEN NoErr
                                          ELSE Error("write", attempts, 0),
                                  !.errOrder = IF w = "ok" THEN 0
                                               ELSE NextErrOrder(jobs)]]
                   /\ files' = [files EXCEPT ![job.target] =
                        DestinationAfter(@, TRUE, w, translated_json)]
              ELSE /\ w = "ok"
                   /\ files' = [files EXCEPT ![job.target] =
                        DestinationAfter(@, FALSE, w, <<>>)]
                   /\ jobs' = [jobs EXCEPT ![j] =
                        IF MayRetry(job.retries)
                        THEN [@ EXCEPT !.trace = @ \o <<Attempt(FALSE), Sleep(job.delay)>>,
                                       !.calls = r.calls,
                                       !.pc = "sleep"]
                        ELSE [@ EXCEPT !.trace = Append(@, Attempt(FALSE)),
                                       !.calls = r.calls,
                                       !.pc = "err",
                                       !.err = Error("translate", attempts, r.errAt),
                                       !.errOrder = NextErrOrder(jobs)]]
    /\ UNCHANGED <<mainPc, mainResult, mainErr, language_codes, idx, hidx,
                   inputValid, prior, reported>>
    /\ UNCHANGED treeVars

JobAttempt(j) ==
    \E failAt \in 0..LeafCalls(InputDoc), w \in {"ok", "open_err", "write_err"} :
        JobAttemptWith(j, failAt, w)

\* NextDelay growing linearly instead of doubling
NextDelay_Linear(delay) == delay + 1

\* main.rs:139: `delay *= 2`
NextDelay(delay) == delay * 2

\* main.rs:137-140: the sleep is over
JobWake(j) ==
    /\ j \in 1..Len(jobs)
    /\ jobs[j].pc = "sleep"
    /\ jobs' = [jobs EXCEPT ![j] =
                  [@ EXCEPT !.retries = @ + 1, !.delay = NextDelay(@), !.pc = "attempt"]]
    /\ UNCHANGED <<mainPc, mainResult, mainErr, language_codes, idx, hidx,
                   files, inputValid, prior, reported>>
    /\ UNCHANGED treeVars


(***************************************************************************)
(* main (main.rs:36-111).                                                  *)
(***************************************************************************)
\* the lists list_languages may return
ReportedLists ==
    { <<"auto", "en", "fr", "de">>,
      <<"de", "auto", "fr", "en">>,
      <<"auto", "en", "fr">>,
      <<"auto", "en">>,
      <<"fr", "de">>,
      <<"fr">>,
      <<"en", "fr", "fr">>,
      <<>> }

NoResult == "none"
NoCount == [logged |-> FALSE, wrapped |-> FALSE, val |-> 0]

\* usize subtraction a - b (main.rs:109).  When a < b the result wraps in a
\* build without overflow checks: the value is 2^64 + val, written as
\* wrapped = TRUE with val = a - b (2^64 is beyond the model checker's integers).
UsizeSub(a, b) == [logged |-> TRUE, wrapped |-> a < b, val |-> a - b]

\* #[tokio::main] (main.rs:35): when main's future ends the runtime is dropped,
\* and every task that has not completed is dropped with it.
DropRuntime(js) ==
    [j \in 1..Len(js) |->
        IF Completed(js[j]) THEN js[j] ELSE [js[j] EXCEPT !.pc = "aborted"]]

\* main's future ends with `result`
Return(result, err, js) ==
    /\ mainPc' = "returned"
    /\ mainResult' = result
    /\ mainErr' = err
    /\ jobs' = DropRuntime(js)

\* main.rs:67: the loop goes on to the join when the list is exhausted
AfterSpawn(list, i) == IF i > Len(list) THEN "join" ELSE "spawn"

\* main.rs:60-65
\* the listing succeeds with `list`
MainListOk(list) ==
    /\ mainPc = "list"
    /\ language_codes' = list
    /\ idx' = 1
    /\ hidx' = 1
    /\ mainPc' = AfterSpawn(list, 1)
    /\ UNCHANGED <<mainResult, mainErr, jobs>>
    /\ UNCHANGED <<files, inputValid, prior, reported>>
    /\ UNCHANGED treeVars

\* the listing fails (main.rs:62)
MainListErr ==
    /\ mainPc = "list"
    /\ Return("err", Error("list", 0, 0), jobs)
    /\ UNCHANGED <<language_codes, idx, hidx>>
    /\ UNCHANGED <<files, inputValid, prior, reported>>
    /\ UNCHANGED treeVars

MainList ==
    \/ MainListErr
    \/ \E list \in ReportedLists : MainListOk(list)

\* Skipped with the test of the source language (main.rs:77) left out
Skipped_AutoOnly(code) == code = "auto"

\* main.rs:71,77: the language codes the loop skips
Skipped(code) == code = "auto" \/ code = source_language_code

\* main.rs:67-98: one iteration of the spawn loop, openOk telling whether
\* File::open of the input file succeeds
MainSpawnWith(openOk) ==
    /\ mainPc = "spawn"
    /\ idx <= Len(language_codes)
    /\ LET code == language_codes[idx]
       IN  IF Skipped(code)
           THEN /\ idx' = idx + 1
                /\ mainPc' = AfterSpawn(language_codes, idx + 1)
                /\ UNCHANGED <<mainResult, mainErr, jobs>>
           ELSE IF openOk
                THEN /\ jobs' = Append(jobs, NewJob(code))
                     /\ idx' = idx + 1
                     /\ mainPc' = AfterSpawn(language_codes, idx + 1)
                     /\ UNCHANGED <<mainResult, mainErr>>
                ELSE /\ Return("err", Error("open", 0, 0), jobs)
                     /\ UNCHANGED idx
    /\ UNCHANGED <<language_codes, hidx, files, inputValid, prior, reported>>
    /\ UNCHANGED treeVars

MainSpawn == \E openOk \in BOOLEAN : MainSpawnWith(openOk)

\* JoinFails with a single `?`: only a JoinError ends main, the task's own
\* result is dropped
JoinFails_OuterOnly(job) == FALSE

\* main.rs:102: the second `?` of `handle.await??` returns the task's error
JoinFails(job) == job.pc = "err"

\* main.rs:101-103: `handle.await??` on the next handle
MainJoin ==
    /\ mainPc = "join"
    /\ hidx <= Len(jobs)
    /\ Completed(jobs[hidx])
    /\ IF JoinFails(jobs[hidx])
       THEN /\ Return("err", jobs[hidx].err, jobs)
            /\ UNCHANGED hidx
       ELSE /\ hidx' = hidx + 1
            /\ UNCHANGED <<mainPc, mainResult, mainErr, jobs>>
    /\ UNCHANGED <<language_codes, idx, files, inputValid, prior, reported>>
    /\ UNCHANGED treeVars

\* main.rs:109: the count logged
CompletedCount(list) == UsizeSub(Len(list), 2)

\* main.rs:105-110: every handle was joined; log the summary and return Ok.
\* When the subtraction overflows, a build with overflow checks panics and a
\* build without them logs the wrapped value.
MainReport ==
    /\ mainPc = "join"
    /\ hidx > Len(jobs)
    /\ LET count == CompletedCount(language_codes)
       IN  \/ /\ reported' = count
              /\ Return("ok", NoErr, jobs)
           \/ /\ count.wrapped
              /\ reported' = NoCount
              /\ Return("panic", NoErr, jobs)
    /\ UNCHANGED <<language_codes, idx, hidx, files, inputValid, prior>>
    /\ UNCHANGED treeVars

(***************************************************************************)
(* SpecTree: one call of translate_json_object.                            *)
(***************************************************************************)
TreeIdle ==
    /\ tDoc = NoDoc
    /\ tPc = "idle"
    /\ tSvc = NoSvc
    /\ tOut = NoOut

MainIdle ==
    /\ mainPc = "list"
    /\ mainResult = NoResult
    /\ mainErr = NoErr
    /\ language_codes = <<>>
    /\ idx = 1
    /\ hidx = 1
    /\ jobs = <<>>
    /\ reported = NoCount

\* the call, with the service translating by Dict or returning its input, and
\* failing at one of the calls or at none
TreeTranslate ==
    /\ tPc = "init"
    /\ \E mode \in {"dict", "identity"}, tgt \in TreeTargets,
          failAt \in 0..LeafCalls(tDoc) :
          LET svc == [mode |-> mode, failAt |-> failAt, tgt |-> tgt]
          IN  /\ tSvc' = svc
              /\ tOut' = translate_json_object(svc, source_language_code, tgt,
                                               tDoc, <<>>)
    /\ tPc' = "done"
    /\ UNCHANGED tDoc
    /\ UNCHANGED mainVars

(***************************************************************************)
(* The specifications.                                                     *)
(***************************************************************************)
Init ==
    /\ MainIdle
    /\ inputValid \in BOOLEAN
    /\ prior \in PriorContents
    /\ files = [c \in LangCodes |-> prior]
    /\ TreeIdle

Next ==
    \/ MainList
    \/ MainSpawn
    \/ MainJoin
    \/ MainReport
    \/ \E j \in 1..Len(jobs) : JobStart(j)
    \/ \E j \in 1..Len(jobs) : JobAttempt(j)
    \/ \E j \in 1..Len(jobs) : JobWake(j)

Spec == Init /\ [][Next]_vars

(***************************************************************************)
(* SpecFixed: the service behaves the same way in every run.  Plan gives,  *)
(* per target language, the number of document-level attempts that fail    *)
(* (at their first service call) before one succeeds; more than            *)
(* max_retries means the translation never succeeds.  Listing, opening,    *)
(* reading and writing succeed.                                            *)
(***************************************************************************)
Plan == [fr |-> max_retries + 1, de |-> 1]

\* lists for which the summary's subtraction does not overflow
FixedLists == {list \in ReportedLists : Len(list) >= 2}

PlannedFailAt(job) ==
    IF Cardinality({i \in 1..Len(job.trace) : job.trace[i].e = "fail"}) < Plan[job.target]
    THEN 1 ELSE 0

MainListFixed == \E list \in FixedLists : MainListOk(list)
MainSpawnFixed == MainSpawnWith(TRUE)
JobStartFixed(j) == JobStartWith(j, TRUE)
JobAttemptFixed(j) == JobAttemptWith(j, PlannedFailAt(jobs[j]), "ok")

NextFixed ==
    \/ MainListFixed
    \/ MainSpawnFixed
    \/ MainJoin
    \/ MainReport
    \/ \E j \in 1..Len(jobs) : JobStartFixed(j)
    \/ \E j \in 1..Len(jobs) : JobAttemptFixed(j)
    \/ \E j \in 1..Len(jobs) : JobWake(j)

SpecFixed == Init /\ [][NextFixed]_vars

(***************************************************************************)
(* SpecJob: the tasks of a run from the point where main has spawned them  *)
(* and awaits the first handle.  Only the tasks take steps; the runtime    *)
(* keeps polling a task that can go on, every service call returns and     *)
(* every sleep ends: weak fairness of each task's steps.                   *)
(***************************************************************************)
JobLists == {<<"fr">>, <<"fr", "de">>}

InitJob ==
    /\ mainPc = "join"
    /\ mainResult = NoResult
    /\ mainErr = NoErr
    /\ language_codes \in JobLists
    /\ idx = Len(language_codes) + 1
    /\ hidx = 1
    /\ jobs = [i \in 1..Len(language_codes) |-> NewJob(language_codes[i])]
    /\ reported = NoCount
    /\ inputValid \in BOOLEAN
    /\ prior \in PriorContents
    /\ files = [c \in LangCodes |-> prior]
    /\ TreeIdle

\* an attempt is enabled exactly when the task is at the head of the loop:
\* whatever the service and the file system answer, the pass ends
CanAttempt(j) == j \in 1..Len(jobs) /\ jobs[j].pc = "attempt"

\* weak fairness of JobAttempt(j), its enabling condition written out
FairAttempt(j) == []<>(~CanAttempt(j)) \/ []<><<JobAttempt(j)>>_vars

NextJob ==
    \/ \E j \in 1..Len(jobs) : JobStart(j)
    \/ \E j \in 1..Len(jobs) : JobAttempt(j)
    \/ \E j \in 1..Len(jobs) : JobWake(j)

SpecJob ==
    /\ InitJob
    /\ [][NextJob]_vars
    /\ \A j \in 1..2 : WF_vars(JobStart(j) \/ JobWake(j)) /\ FairAttempt(j)

InitTree ==
    /\ MainIdle
    /\ inputValid = TRUE
    /\ prior = Absent
    /\ files = [c \in LangCodes |-> Absent]
    /\ tDoc \in Docs
    /\ tPc = "init"
    /\ tSvc = NoSvc
    /\ tOut = NoOut

NextTree == TreeTranslate

SpecTree == InitTree /\ [][NextTree]_vars


(***************************************************************************)
(* Definitions used to state the claims.                                   *)
(***************************************************************************)
RECURSIVE Pow2(_)
Pow2(n) == IF n = 0 THEN 1 ELSE 2 * Pow2(n - 1)

JobIds == 1..Len(jobs)
Returned == mainPc = "returned"
\* the language listing succeeded and main is past it
Listed == mainPc # "list" /\ mainErr.kind # "list"
\* the target languages for which a job was started
Started == {jobs[j].target : j \in JobIds}
\* the reported language codes minus the source language and the sentinel
Targets == {language_codes[i] : i \in 1..Len(language_codes)}
              \ {source_language_code, "auto"}
\* the spawn loop ran to its end
SpawnDone == mainPc = "join" \/ (Returned /\ mainErr.kind \notin {"list", "open"})

NumFails(job) == Cardinality({i \in 1..Len(job.trace) : job.trace[i].e = "fail"})
NumAttempts(job) == Cardinality({i \in 1..Len(job.trace) : job.trace[i].e # "sleep"})
NumSleeps(job) == Cardinality({i \in 1..Len(job.trace) : job.trace[i].e = "sleep"})
LastEvent(job) == job.trace[Len(job.trace)]
Succeeded(job) == Len(job.trace) > 0 /\ LastEvent(job).e = "ok"

\* the translation of InputDoc into tgt, written out
ExpectedDoc(tgt) ==
    Obj(<<Entry("a", Str(Dict[tgt]["hello"])),
          Entry("b", Obj(<<Entry("c", Str("")), Entry("d", Str(Dict[tgt]["world"]))>>))>>)

\* C1: main does not return (with Ok or with an error) while a spawned job has
\* not reached completion (success or terminal error).
C1_JoinBarrier ==
    Returned => \A j \in JobIds : Completed(jobs[j])

C3_SummaryCount ==
    (Returned /\ mainResult = "ok") =>
        /\ reported.logged
        /\ ~reported.wrapped
        /\ reported.val = Len(jobs)


\* the shape every job's trace has: attempts at the odd places, sleeps at the
\* even ones, every attempt but the last failed, and the i-th sleep lasting
\* 2^(i-1) seconds
TraceShape(job) ==
    \A i \in 1..Len(job.trace) :
        IF i % 2 = 1
        THEN /\ job.trace[i].e \in {"ok", "fail"}
             /\ (i < Len(job.trace) => job.trace[i].e = "fail")
        ELSE job.trace[i] = Sleep(Pow2(i \div 2 - 1))

\* C4: a job whose translation fails on the first k attempts and succeeds on
\* attempt k+1 has k <= 5, made exactly k+1 attempts and k sleeps of 1, 2, 4,
\* ... seconds, each sleep between a failed attempt and the next attempt, and
\* its result is the serialized translation of the successful attempt.
C4_RetryBackoff ==
    \A j \in JobIds :
        LET job == jobs[j]
            k == NumFails(job)
        IN  /\ TraceShape(job)
            /\ Succeeded(job) =>
                  /\ k \in 0..max_retries
                  /\ NumAttempts(job) = k + 1
                  /\ NumSleeps(job) = k
                  /\ Len(job.trace) = 2 * k + 1
                  /\ \A i \in 1..k : job.trace[2 * i] = Sleep(Pow2(i - 1))
                  /\ job.retries = k
                  /\ job.delay = Pow2(k)
                  /\ job.pc = "ok" => job.out = to_string_pretty(ExpectedDoc(job.target))

C4_Witness ==
    \E j \in JobIds :
        /\ jobs[j].pc = "ok"
        /\ NumFails(jobs[j]) = 5
        /\ jobs[j].trace[10] = Sleep(16)

\* C5: a job whose every attempt fails makes exactly 6 attempts, sleeps 5
\* times and not after the 6th failure, returns the error of the 6th attempt,
\* and does not write its destination.
C5_RetryExhaustion ==
    \A j \in JobIds :
        LET job == jobs[j]
        IN  /\ NumFails(job) <= max_retries + 1
            /\ NumFails(job) = max_retries + 1 =>
                  /\ job.pc = "err"
                  /\ job.err.kind = "translate"
            /\ (job.pc = "err" /\ job.err.kind = "translate") =>
                  /\ NumAttempts(job) = max_retries + 1
                  /\ NumFails(job) = max_retries + 1
                  /\ NumSleeps(job) = max_retries
                  /\ LastEvent(job) = Attempt(FALSE)
                  /\ job.err = Error("translate", max_retries + 1, Len(job.calls))
                  /\ job.out = <<>>
                  /\ (\A i \in JobIds : jobs[i].target = job.target
                                           => jobs[i].out = <<>> /\ jobs[i].err.kind # "write")
                        => files[job.target] = prior

C5_Witness ==
    \E j \in JobIds :
        /\ jobs[j].pc = "err"
        /\ jobs[j].err = Error("translate", 6, 2)
        /\ files[jobs[j].target] = prior

\* C6: after a job's write completes, its destination holds exactly the
\* serialized translated document, whatever it held before.
C6_Overwrite ==
    \A j \in JobIds :
        jobs[j].pc = "ok" =>
            files[jobs[j].target] = [exists |-> TRUE, bytes |-> jobs[j].out]

\* C7: main returns success only if every job returned success, and once main
\* has returned, a job that ended in a terminal error means main returned an
\* error.
C7_RunStatus ==
    /\ mainResult = "ok" =>
          /\ Started = Targets
          /\ \A j \in JobIds : jobs[j].pc = "ok"
    /\ (Returned /\ \E j \in JobIds : jobs[j].pc = "err") => mainResult = "err"

C7_Witness ==
    /\ Returned
    /\ mainResult = "err"
    /\ Len(jobs) = 2
    /\ jobs[1].pc = "ok"
    /\ jobs[2].pc = "err"
    /\ mainErr = jobs[2].err


\* the texts of the non-empty string leaves reached through object nesting,
\* in the order of the traversal
RECURSIVE LeafTexts(_)
RECURSIVE LeafTextsFrom(_, _)
LeafTextsFrom(entries, i) ==
    IF i > Len(entries) THEN <<>>
    ELSE LeafTexts(entries[i].v) \o LeafTextsFrom(entries, i + 1)
LeafTexts(doc) ==
    CASE doc.kind = "obj" -> LeafTextsFrom(doc.kids, 1)
      [] doc.kind = "str" -> IF doc.s = "" THEN <<>> ELSE <<doc.s>>
      [] OTHER -> <<>>

\* doc with every non-empty string leaf under object nesting replaced by the
\* text the service returns for it, everything else as it is
RECURSIVE Substituted(_, _, _)
Substituted(doc, mode, tgt) ==
    CASE doc.kind = "obj" ->
            Obj([i \in 1..Len(doc.kids) |->
                    Entry(doc.kids[i].k, Substituted(doc.kids[i].v, mode, tgt))])
      [] doc.kind = "str" ->
            IF doc.s = "" \/ mode = "identity" THEN doc ELSE Str(Dict[tgt][doc.s])
      [] OTHER -> doc

TreeDone == tPc = "done"

\* C8: when a leaf service call fails, the call of translate_json_object makes
\* no further service call, and returns the error of that call and no document.
C8_LeafFailureAborts ==
    (TreeDone /\ tSvc.failAt > 0) =>
        /\ ~tOut.ok
        /\ tOut.value = NoDoc
        /\ tOut.errAt = tSvc.failAt
        /\ Len(tOut.calls) = tSvc.failAt
        /\ \A i \in 1..Len(tOut.calls) :
              tOut.calls[i] = Call(source_language_code, tSvc.tgt, LeafTexts(tDoc)[i])

\* the failing call lies in a nested object and a sibling leaf follows it
C8_Witness ==
    /\ TreeDone
    /\ tDoc = Obj(<<Entry("a", Obj(<<Entry("a", Str("hello"))>>)),
                    Entry("b", Str("world"))>>)
    /\ tSvc.failAt = 1
    /\ ~tOut.ok
    /\ Len(tOut.calls) = 1

\* C9: with a service that returns its input text, translate_json_object
\* succeeds with a document equal to the one it was given.
C9_StructurePreserved ==
    (TreeDone /\ tSvc.mode = "identity" /\ tSvc.failAt = 0) =>
        /\ tOut.ok
        /\ tOut.value = tDoc

C9_Witness ==
    /\ TreeDone
    /\ tSvc.mode = "identity"
    /\ tDoc = Obj(<<Entry("a", Num("1")),
                    Entry("b", Obj(<<Entry("a", Str("hello")), Entry("b", Null)>>))>>)
    /\ tOut.ok
    /\ tOut.value = tDoc

\* C10: the service is never called for an empty-string leaf, which stays the
\* empty string; every non-empty string leaf under object nesting is sent
\* exactly once, with (source, target, text), and is replaced by the text
\* returned.
C10_EmptyShortCircuit ==
    (TreeDone /\ tSvc.failAt = 0) =>
        /\ tOut.ok
        /\ \A i \in 1..Len(tOut.calls) : tOut.calls[i].text # ""
        /\ Len(tOut.calls) = Len(LeafTexts(tDoc))
        /\ \A i \in 1..Len(tOut.calls) :
              tOut.calls[i] = Call(source_language_code, tSvc.tgt, LeafTexts(tDoc)[i])
        /\ tOut.value = Substituted(tDoc, tSvc.mode, tSvc.tgt)

\* {"a":"hello","b":{"c":""}} into fr: {"a":"bonjour","b":{"c":""}}, one call
C10_Witness ==
    /\ TreeDone
    /\ tDoc = ExampleDoc
    /\ tSvc = [mode |-> "dict", failAt |-> 0, tgt |-> "fr"]
    /\ tOut.value = Obj(<<Entry("a", Str("bonjour")),
                          Entry("b", Obj(<<Entry("c", Str(""))>>))>>)
    /\ tOut.calls = <<Call("en", "fr", "hello")>>


\* the non-empty strings of doc at any depth, inside arrays too
RECURSIVE DeepTexts(_)
RECURSIVE DeepTextsFrom(_, _)
DeepTextsFrom(kids, i) ==
    IF i > Len(kids) THEN <<>>
    ELSE DeepTexts(kids[i].v) \o DeepTextsFrom(kids, i + 1)
DeepTexts(doc) ==
    CASE doc.kind \in {"obj", "arr"} -> DeepTextsFrom(doc.kids, 1)
      [] doc.kind = "str" -> IF doc.s = "" THEN <<>> ELSE <<doc.s>>
      [] OTHER -> <<>>

\* doc with every non-empty string replaced by its translation, inside
\* arrays too, every element keeping its position
RECURSIVE DeepSubstituted(_, _, _)
DeepSubstituted(doc, mode, tgt) ==
    CASE doc.kind \in {"obj", "arr"} ->
            [doc EXCEPT !.kids =
                [i \in 1..Len(doc.kids) |->
                    Entry(doc.kids[i].k, DeepSubstituted(doc.kids[i].v, mode, tgt))]]
      [] doc.kind = "str" ->
            IF doc.s = "" \/ mode = "identity" THEN doc ELSE Str(Dict[tgt][doc.s])
      [] OTHER -> doc

\* the array nodes of doc reached through object nesting, in traversal order
RECURSIVE ArrayNodes(_)
RECURSIVE ArrayNodesFrom(_, _)
ArrayNodesFrom(kids, i) ==
    IF i > Len(kids) THEN <<>>
    ELSE ArrayNodes(kids[i].v) \o ArrayNodesFrom(kids, i + 1)
ArrayNodes(doc) ==
    CASE doc.kind = "obj" -> ArrayNodesFrom(doc.kids, 1)
      [] doc.kind = "arr" -> <<doc>>
      [] OTHER -> <<>>

\* C11 (as stated): arrays are handled like objects: every non-empty string
\* element of an array is sent to the service and replaced by its translation,
\* every element keeping its position.
C11_ArraysRecursed ==
    (TreeDone /\ tSvc.failAt = 0) =>
        /\ tOut.value = DeepSubstituted(tDoc, tSvc.mode, tSvc.tgt)
        /\ Len(tOut.calls) = Len(DeepTexts(tDoc))

\* C11 (amended): an array is returned as it is: the same elements at the
\* same positions, none of them sent to the service or translated.
C11_ArraysPassThrough ==
    (TreeDone /\ tSvc.failAt = 0) =>
        /\ tOut.ok
        /\ ArrayNodes(tOut.value) = ArrayNodes(tDoc)
        /\ Len(tOut.calls) = Len(LeafTexts(tDoc))
        /\ tDoc.kind = "arr" => (tOut.value = tDoc /\ tOut.calls = <<>>)

C11_Witness ==
    /\ TreeDone
    /\ tSvc = [mode |-> "dict", failAt |-> 0, tgt |-> "fr"]
    /\ tDoc = Obj(<<Entry("a", Arr(<<Entry("", Str("hello"))>>)),
                    Entry("b", Str("hello"))>>)
    /\ tOut.value = Obj(<<Entry("a", Arr(<<Entry("", Str("hello"))>>)),
                          Entry("b", Str("bonjour"))>>)
    /\ tOut.calls = <<Call("en", "fr", "hello")>>


\* C12: when the input text is not valid JSON, a job returns the parse error
\* at once: no translation attempt, no service call, no sleep, no write.
C12_ParseFatal ==
    /\ ~inputValid =>
          /\ \A c \in LangCodes : files[c] = prior
          /\ \A j \in JobIds :
                /\ jobs[j].trace = <<>>
                /\ jobs[j].calls = <<>>
                /\ jobs[j].out = <<>>
                /\ jobs[j].retries = 0
                /\ jobs[j].pc \in {"spawned", "err", "aborted"}
                /\ jobs[j].pc = "err" => jobs[j].err.kind \in {"read", "parse"}
    /\ \A j \in JobIds : jobs[j].err.kind = "parse" => ~inputValid

C12_Witness ==
    /\ ~inputValid
    /\ Returned
    /\ mainErr = Error("parse", 0, 0)
    /\ \E j \in JobIds : jobs[j].pc = "err" /\ jobs[j].err = Error("parse", 0, 0)


\* C13: at most one job is started per target language code, so no two jobs
\* write the same destination.
C13_NoDuplicateJobs ==
    \A i, j \in JobIds : i # j => jobs[i].target # jobs[j].target

\* C14: the destination of a job that succeeded holds that job's translated
\* document, as its write left it, whatever the other jobs do afterwards and
\* also once main has returned; and a run in which a job failed reports failure.
C14_JobIsolation ==
    /\ \A j \in JobIds :
          jobs[j].pc = "ok" =>
              LET f == files[jobs[j].target]
                  doc == to_string_pretty(ExpectedDoc(jobs[j].target))
              IN  /\ f.exists
                  /\ jobs[j].out = doc
                  /\ Len(f.bytes) >= Len(doc)
                  /\ SubSeq(f.bytes, 1, Len(doc)) = doc
                  /\ f.bytes = doc \o SubSeq(prior.bytes, Len(doc) + 1, Len(prior.bytes))
    /\ (Returned /\ \E j \in JobIds : jobs[j].pc = "err") => mainResult = "err"

\* fr failed, de had succeeded, main has returned the failure, and de's
\* destination holds de's document
C14_Witness ==
    /\ Returned
    /\ mainResult = "err"
    /\ prior = Absent
    /\ \E i, j \in JobIds :
          /\ jobs[i].target = "fr" /\ jobs[i].pc = "err"
          /\ jobs[j].target = "de" /\ jobs[j].pc = "ok"
    /\ files["de"] = [exists |-> TRUE, bytes |-> to_string_pretty(ExpectedDoc("de"))]
    /\ files["fr"] = Absent


\* C17: a destination is created or modified only by a job of that target
\* whose translation attempt has succeeded and been serialized; a job still in
\* its attempts, or ended by a parse failure or by retry exhaustion, leaves
\* its destination as it was.
C17_WriteAfterSuccess ==
    /\ \A c \in LangCodes :
          files[c] # prior =>
              \E j \in JobIds : jobs[j].target = c /\ Succeeded(jobs[j])
    /\ \A j \in JobIds :
          /\ jobs[j].out # <<>> =>
                /\ Succeeded(jobs[j])
                /\ jobs[j].out = to_string_pretty(ExpectedDoc(jobs[j].target))
          /\ (~Succeeded(jobs[j])
              /\ \A i \in JobIds : jobs[i].target = jobs[j].target => ~Succeeded(jobs[i]))
                => files[jobs[j].target] = prior

\* one job is asleep after a failed attempt, its destination untouched, while
\* another job has written its own
C17_Witness ==
    \E i, j \in JobIds :
        /\ jobs[i].pc = "sleep"
        /\ NumFails(jobs[i]) = 3
        /\ files[jobs[i].target] = prior
        /\ jobs[j].pc = "ok"
        /\ files[jobs[j].target] # prior

\* C18: every attempt works on a copy of the parsed document as it was
\* parsed: a successful attempt that follows k failed ones makes the same
\* service calls and yields the same document as a first attempt that
\* succeeds, and nothing of a failed attempt is in the output.
C18_RetryIdempotent ==
    \A j \in JobIds :
        Succeeded(jobs[j]) =>
            /\ jobs[j].calls = <<Call(source_language_code, jobs[j].target, "hello"),
                                 Call(source_language_code, jobs[j].target, "world")>>
            /\ jobs[j].pc = "ok" =>
                  /\ jobs[j].out = to_string_pretty(
                        translate_json_object([mode |-> "dict", failAt |-> 0],
                                              source_language_code, jobs[j].target,
                                              InputDoc, <<>>).value)
                  /\ SubSeq(files[jobs[j].target].bytes, 1, Len(jobs[j].out)) = jobs[j].out

C18_Witness ==
    \E i, j \in JobIds :
        /\ jobs[i].target = jobs[j].target
        /\ jobs[i].pc = "ok" /\ NumFails(jobs[i]) = 0
        /\ jobs[j].pc = "ok" /\ NumFails(jobs[j]) = 2
        /\ jobs[i].out = jobs[j].out


\* the jobs of a target all succeed under Plan
PlannedOk(c) == inputValid /\ Plan[c] <= max_retries

\* C15: with the list and the behaviour of the service fixed, every
\* interleaving of the jobs ends in the same final state: the destinations
\* of the targets the service translates are written with the translated
\* document, no other destination is touched, and the run fails exactly when
\* the service fails a target.
C15_SameOutcome ==
    Returned =>
        /\ \A c \in LangCodes :
              files[c] = IF c \in Targets /\ PlannedOk(c)
                         THEN WriteFile(prior, to_string_pretty(ExpectedDoc(c)))
                         ELSE prior
        /\ mainResult = IF \A c \in Targets : PlannedOk(c) THEN "ok" ELSE "err"

\* the final state of C15_SameOutcome is the one of the interleavings in
\* which every job completes before main joins it
C15_AllCompleted ==
    /\ Returned
    /\ language_codes = <<"auto", "en", "fr", "de">>
    /\ inputValid
    /\ jobs[1].pc = "err"
    /\ jobs[2].pc = "ok"
    /\ files["de"].exists

\* the job whose error main returned (main.rs:102): the handle at which the
\* join loop stopped
ReturnedJobError == Returned /\ mainErr.kind \notin {"none", "list", "open"}

\* C16 (as stated): the error main returns is the one of the job that failed
\* first in time.
C16_FirstInTime ==
    ReturnedJobError => jobs[hidx].errOrder = 1

\* C16 (amended): the error main returns is the one of the first failed job
\* in the order of the handles, the order of the targets in the reported
\* list: every job before it in the list succeeded.
C16_FirstInListOrder ==
    /\ ReturnedJobError =>
          /\ hidx \in JobIds
          /\ jobs[hidx].pc = "err"
          /\ mainErr = jobs[hidx].err
          /\ \A i \in 1..(hidx - 1) : jobs[i].pc = "ok"
    /\ (Returned /\ \E j \in JobIds : jobs[j].pc = "err") =>
          (ReturnedJobError \/ mainErr.kind = "open")

\* both jobs failed, the second of the list first; main returns the error of
\* the first of the list
C16_Witness ==
    /\ ReturnedJobError
    /\ Len(jobs) = 2
    /\ hidx = 1
    /\ jobs[1].errOrder = 2
    /\ jobs[2].errOrder = 1
    /\ mainErr = jobs[1].err
    /\ jobs[1].err # jobs[2].err

RECURSIVE SumSleeps(_, _)
SumSleeps(trace, i) ==
    IF i > Len(trace) THEN 0
    ELSE (IF trace[i].e = "sleep" THEN trace[i].d ELSE 0) + SumSleeps(trace, i + 1)

InLoop(job) == job.pc \in {"attempt", "sleep"} \/ job.trace # <<>>

\* in every state of the retry loop: retries in 0..5, delay = 2^retries
\* seconds, at most retries + 1 attempts, at most 5 sleeps, 31 seconds in all
C19_LoopInv ==
    \A j \in JobIds :
        LET job == jobs[j]
        IN  /\ job.retries \in 0..max_retries
            /\ InLoop(job) =>
                  /\ job.delay = Pow2(job.retries)
                  /\ NumAttempts(job) <= job.retries + 1
                  /\ NumAttempts(job) <= max_retries + 1
                  /\ NumSleeps(job) <= max_retries
                  /\ SumSleeps(job.trace, 1) = Pow2(NumSleeps(job)) - 1
                  /\ SumSleeps(job.trace, 1) <= 31

====
